---- MODULE Spec2Model ----
(***************************************************************************)
(* A model of vexide-motorgroup: MotorGroup fans one operation out over    *)
(* its motors and aggregates the per-motor results (src/src/lib.rs).       *)
(*                                                                         *)
(* A motor is an external device.  What a motor answers to one call is an  *)
(* input of the group call, drawn from a small set; the group call itself  *)
(* is one atomic action (the code is synchronous and single-threaded).     *)
(* Every call leaves a record of itself in the variables op, arg, outcome,  *)
(* invoked and ret: the operation, its argument, what each motor would     *)
(* answer, the single-motor calls the group made (in order) and the value  *)
(* returned.                                                               *)
(*                                                                         *)
(* SharedMotors (src/src/shared_motors.rs) puts a group in an              *)
(* Rc<RefCell<..>>: handles counts the SharedMotors values that hold it,   *)
(* borrow is the borrow flag of the RefCell, and via is the handle through *)
(* which the call on record was made.                                      *)
(***************************************************************************)
EXTENDS Integers, Sequences, FiniteSets

\* ------------------------------------------------------------------ bounds
\* The largest number of motors handed to MotorGroup::new.
MaxMotors == 3

\* The largest magnitude of a value a motor reports on a numeric read.
MaxReading == 3

\* --------------------------------------------------------------- vocabulary
\* The motor errors the model distinguishes (MotorError::Port, ::Busy).
ErrorKinds == {"Port", "Busy"}

\* The values a motor can report: one negative, one positive, so that sums
\* of either sign and quotients that are not whole occur.
Readings == {-MaxReading, MaxReading - 1}

WriteOps ==
    {"set_target", "brake", "set_velocity", "set_voltage",
     "set_position_target", "set_profiled_velocity", "set_gearset",
     "reset_position", "set_position", "set_current_limit",
     "set_voltage_limit", "set_direction"}

FloatReadOps ==
    {"velocity", "power", "torque", "voltage", "current", "efficiency",
     "temperature"}

ReadOps == FloatReadOps \cup {"position"}

FlagOps ==
    {"is_over_temperature", "is_over_current", "is_driver_fault",
     "is_driver_over_current"}

\* Option<T>: None is the empty sequence, Some(v) the one-element sequence.
None == <<>>
Some(v) == <<v>>

\* Result<T, E>
Ok(v) == [tag |-> "Ok", value |-> v]
Err(e) == [tag |-> "Err", error |-> e]

\* The unit value ().
Unit == "()"

\* The outcome of a failed assert! or unwrap(): the call does not return.
Panic == [tag |-> "Panic"]

\* A MotorError as returned by the motor `m`.  The motor is kept in the
\* error so that the entries of an error list can be told apart.
MotorError(kind, m) == [kind |-> kind, motor |-> m]

VARIABLES
    status,                 \* "unconstructed", "live" or "panicked"
    motors,                 \* MotorGroup.motors: the sequence of motors
    write_error_strategy,   \* MotorGroup.write_error_strategy
    op,                     \* the last operation called
    arg,                    \* the argument of that operation
    outcome,                \* what motor i answers to that operation
    invoked,                \* the single-motor calls made, in order
    ret,                    \* the value the call returned
    handles,                \* the number of SharedMotors that hold the group
    borrow,                 \* RefCell: 0 unused, -1 a RefMut, n > 0 n Refs
    via                     \* the handle the call was made through, 0: none

vars ==
    <<status, motors, write_error_strategy, op, arg, outcome, invoked, ret,
      handles, borrow, via>>

\* A call made on the group by its owner: the group is in no SharedMotors.
Direct(call) ==
    /\ handles = 0
    /\ call
    /\ UNCHANGED <<handles, borrow, via>>

\* The argument on record for an operation whose argument is not modelled:
\* the payload of a write goes to every motor as it is.
NoArg == "_"

\* ------------------------------------------------------------ MotorGroupError
\* A slip of new: only the first error is kept.
new_first_only(errors) ==
    IF errors = <<>> THEN Panic
    ELSE [tag |-> "MotorGroupError", errors |-> <<errors[1]>>, result |-> None]

\* MotorGroupError::new: asserts a non-empty list, no result.
new(errors) ==
    IF errors = <<>> THEN Panic
    ELSE [tag |-> "MotorGroupError", errors |-> errors, result |-> None]

\* A slip of with_result: the assertion is missing.
with_result_unchecked(errors, result) ==
    [tag |-> "MotorGroupError", errors |-> errors, result |-> Some(result)]

\* MotorGroupError::with_result
with_result(errors, result) ==
    IF errors = <<>> THEN Panic
    ELSE [tag |-> "MotorGroupError", errors |-> errors, result |-> Some(result)]

\* A slip of with_empty_result: a default value in place of no result.
with_default_result(errors) ==
    IF errors = <<>> THEN Panic
    ELSE [tag |-> "MotorGroupError", errors |-> errors, result |-> Some(0)]

\* MotorGroupError::with_empty_result
with_empty_result(errors) ==
    IF errors = <<>> THEN Panic
    ELSE [tag |-> "MotorGroupError", errors |-> errors, result |-> None]

\* Err(e) of a group call; a panicking constructor makes the call panic.
ErrOf(e) == IF e = Panic THEN Panic ELSE Err(e)

\* MotorGroupError::result
result(self) == self.result

\* A slip of first: the last error.
last(self) ==
    IF self.errors = <<>> THEN Panic ELSE self.errors[Len(self.errors)]

\* MotorGroupError::first: `&self.errors[0]`; indexing an empty Vec panics.
first(self) ==
    IF self.errors = <<>> THEN Panic ELSE self.errors[1]

\* `.iter().any(|error| matches!(error, kind))`: the scan stops at the first
\* match.
RECURSIVE AnyOfKind(_, _)
AnyOfKind(errors, kind) ==
    IF errors = <<>> THEN FALSE
    ELSE IF Head(errors).kind = kind THEN TRUE
    ELSE AnyOfKind(Tail(errors), kind)

\* A slip of has_busy_error: only the first error is looked at.
first_is_busy(self) == self.errors /= <<>> /\ self.errors[1].kind = "Busy"

\* MotorGroupError::has_busy_error
has_busy_error(self) == AnyOfKind(self.errors, "Busy")

\* MotorGroupError::has_port_error
has_port_error(self) == AnyOfKind(self.errors, "Port")

\* A slip of the conversion: the error met last is the one kept.
MotorError_from_last(error) ==
    IF error.errors = <<>> THEN Panic ELSE error.errors[Len(error.errors)]

\* From<MotorGroupError> for MotorError: `.into_iter().next().unwrap()`.
MotorError_from(error) ==
    IF error.errors = <<>> THEN Panic ELSE Head(error.errors)

\* ------------------------------------------------------------------ numbers
Abs(x) == IF x < 0 THEN -x ELSE x

RECURSIVE Gcd(_, _)
Gcd(a, b) == IF b = 0 THEN a ELSE Gcd(b, a % b)

\* f64 division `sum / count as f64`, as the exact quotient in lowest terms
\* <<numerator, denominator>>; 0.0 / 0.0 is NaN.
DivF64(sum, count) ==
    IF count = 0 THEN "NaN"
    ELSE LET g == Gcd(Abs(sum), count)
         IN <<sum \div g, count \div g>>

\* Position / i64: integer division of the ticks, truncating towards zero;
\* dividing by zero panics.
DivPosition(sum, count) ==
    IF count = 0 THEN Panic
    ELSE IF sum >= 0 THEN sum \div count
    ELSE -((-sum) \div count)

\* The division a numeric read uses.
Divide(o, sum, count) ==
    IF o = "position" THEN DivPosition(sum, count) ELSE DivF64(sum, count)

\* --------------------------------------------------------------- the motors
\* The error a motor returns when a call on it fails.  Which of the errors
\* it is, is fixed per motor (odd motors are unplugged, even ones busy), so
\* that error lists mixing both kinds occur.
FaultOf(m) == IF m % 2 = 1 THEN "Port" ELSE "Busy"

\* A motor that fails the call.
Fault == [tag |-> "Fault"]

\* What a motor can do on a write, a numeric read and a flag read.
WriteAnswers == {Ok(Unit), Fault}
ReadAnswers == {Ok(v) : v \in Readings} \cup {Fault}
FlagAnswers == {Ok(b) : b \in BOOLEAN} \cup {Fault}

\* The Result the motor m returns.
MotorResult(m, a) ==
    IF a = Fault THEN Err(MotorError(FaultOf(m), m)) ELSE a

\* The Results of the motors ms, one per motor.
Results(ms, answers) == [i \in 1..Len(ms) |-> MotorResult(ms[i], answers[i])]

\* One single-motor call: the index of the motor in the group and the
\* method of Motor that was called.
Call(i, o) == [index |-> i, method |-> o]

\* ------------------------------------------------------------ write protocol
\* Slips of the strategy test: a break on every error, and no break at all.
BreaksAlways(strategy) == TRUE
BreaksNever(strategy) == FALSE

\* `if self.write_error_strategy == WriteErrorStrategy::Stop { break; }`
BreaksOnError(strategy) == strategy = "Stop"

\* A slip of the result of a write: the error carries a unit result.
WriteResultWithUnit(errors) ==
    IF errors = <<>> THEN Ok(Unit) ELSE ErrOf(with_result(errors, Unit))

\* `if errors.is_empty() { Ok(()) } else { Err(MotorGroupError::new(errors)) }`
WriteResult(errors) ==
    IF errors = <<>> THEN Ok(Unit) ELSE ErrOf(new(errors))

\* A slip of the write loop: a motor that failed is called a second time.
RECURSIVE WriteLoopRetrying(_, _, _, _, _, _, _)
WriteLoopRetrying(o, ms, out, strategy, i, errors, calls) ==
    IF i > Len(ms) THEN [errors |-> errors, calls |-> calls]
    ELSE LET r == out[i]
             calls1 == Append(calls, Call(i, o))
         IN IF r.tag = "Err"
            THEN LET errors1 == Append(errors, r.error)
                     calls2 == Append(calls1, Call(i, o))
                 IN IF BreaksOnError(strategy)
                    THEN [errors |-> errors1, calls |-> calls2]
                    ELSE WriteLoopRetrying(o, ms, out, strategy, i + 1, errors1, calls2)
            ELSE WriteLoopRetrying(o, ms, out, strategy, i + 1, errors, calls1)

\* `for motor in self.motors.as_mut()` of a write, from motor i on: each
\* motor is called; an error is pushed and, under Stop, ends the loop.
RECURSIVE WriteLoop(_, _, _, _, _, _, _)
WriteLoop(o, ms, out, strategy, i, errors, calls) ==
    IF i > Len(ms) THEN [errors |-> errors, calls |-> calls]
    ELSE LET r == out[i]
             calls1 == Append(calls, Call(i, o))
         IN IF r.tag = "Err"
            THEN LET errors1 == Append(errors, r.error)
                 IN IF BreaksOnError(strategy)
                    THEN [errors |-> errors1, calls |-> calls1]
                    ELSE WriteLoop(o, ms, out, strategy, i + 1, errors1, calls1)
            ELSE WriteLoop(o, ms, out, strategy, i + 1, errors, calls1)

\* A slip of a write: the motors that failed are taken out of the group.
WriteDroppingFailed(o) ==
    /\ status = "live"
    /\ \E answers \in [1..Len(motors) -> WriteAnswers] :
        LET out == Results(motors, answers)
            l == WriteLoop(o, motors, out, write_error_strategy, 1, <<>>, <<>>)
            failed == {l.errors[j].motor : j \in 1..Len(l.errors)}
            Works(m) == m \notin failed
        IN /\ op' = o
           /\ arg' = NoArg
           /\ outcome' = out
           /\ invoked' = l.calls
           /\ ret' = WriteResult(l.errors)
           /\ motors' = SelectSeq(motors, Works)
    /\ UNCHANGED <<status, write_error_strategy>>

\* A write operation of the group: the loop, then the result.
Write(o) ==
    /\ status = "live"
    /\ \E answers \in [1..Len(motors) -> WriteAnswers] :
        LET out == Results(motors, answers)
            l == WriteLoop(o, motors, out, write_error_strategy, 1, <<>>, <<>>)
        IN /\ op' = o
           /\ arg' = NoArg
           /\ outcome' = out
           /\ invoked' = l.calls
           /\ ret' = WriteResult(l.errors)
    /\ UNCHANGED <<status, motors, write_error_strategy>>

\* ------------------------------------------------------------- read protocol
\* A slip of the accumulation: the sum is overwritten.
Overwrite(sum, value) == value

\* `sum += value`
Accumulate(sum, value) == sum + value

\* A slip of the result of a numeric read: the average is taken over all
\* the motors, failed ones included.
ReadResultOverAll(o, errors, sum, count) ==
    IF errors = <<>> THEN Ok(Divide(o, sum, count))
    ELSE IF count > 0
    THEN ErrOf(with_result(errors, Divide(o, sum, count + Len(errors))))
    ELSE ErrOf(with_empty_result(errors))

\* Another: the test for an empty error list is forgotten.
ReadResultAlwaysErr(o, errors, sum, count) ==
    IF count > 0 THEN ErrOf(with_result(errors, Divide(o, sum, count)))
    ELSE ErrOf(with_empty_result(errors))

\* Another: the test of the count is forgotten, and the sum is divided by
\* the count even when no motor succeeded.
ReadResultDividingAlways(o, errors, sum, count) ==
    IF errors = <<>> THEN Ok(Divide(o, sum, count))
    ELSE ErrOf(with_result(errors, Divide(o, sum, count)))

\* The three-way result of a numeric read.
ReadResult(o, errors, sum, count) ==
    IF errors = <<>> THEN Ok(Divide(o, sum, count))
    ELSE IF count > 0 THEN ErrOf(with_result(errors, Divide(o, sum, count)))
    ELSE ErrOf(with_empty_result(errors))

\* A slip of the read loop: it honours the write strategy.
RECURSIVE ReadLoopHonouringStop(_, _, _, _, _, _, _, _)
ReadLoopHonouringStop(o, ms, out, i, errors, sum, count, calls) ==
    IF i > Len(ms)
    THEN [errors |-> errors, sum |-> sum, count |-> count, calls |-> calls]
    ELSE LET r == out[i]
             calls1 == Append(calls, Call(i, o))
         IN IF r.tag = "Ok"
            THEN ReadLoopHonouringStop(o, ms, out, i + 1, errors,
                                       Accumulate(sum, r.value), count + 1, calls1)
            ELSE IF write_error_strategy = "Stop"
            THEN [errors |-> Append(errors, r.error), sum |-> sum,
                  count |-> count, calls |-> calls1]
            ELSE ReadLoopHonouringStop(o, ms, out, i + 1, Append(errors, r.error),
                                       sum, count, calls1)

\* `for motor in self.motors.as_ref()` of a numeric read, from motor i on.
RECURSIVE ReadLoop(_, _, _, _, _, _, _, _)
ReadLoop(o, ms, out, i, errors, sum, count, calls) ==
    IF i > Len(ms)
    THEN [errors |-> errors, sum |-> sum, count |-> count, calls |-> calls]
    ELSE LET r == out[i]
             calls1 == Append(calls, Call(i, o))
         IN IF r.tag = "Ok"
            THEN ReadLoop(o, ms, out, i + 1, errors,
                          Accumulate(sum, r.value), count + 1, calls1)
            ELSE ReadLoop(o, ms, out, i + 1, Append(errors, r.error),
                          sum, count, calls1)

\* A slip of a numeric read: it puts the strategy back to the default.
ReadResettingStrategy(o) ==
    /\ status = "live"
    /\ \E answers \in [1..Len(motors) -> ReadAnswers] :
        LET out == Results(motors, answers)
            l == ReadLoop(o, motors, out, 1, <<>>, 0, 0, <<>>)
        IN /\ op' = o
           /\ arg' = NoArg
           /\ outcome' = out
           /\ invoked' = l.calls
           /\ ret' = ReadResult(o, l.errors, l.sum, l.count)
    /\ write_error_strategy' = "Ignore"
    /\ UNCHANGED <<status, motors>>

\* A numeric read of the group.
Read(o) ==
    /\ status = "live"
    /\ \E answers \in [1..Len(motors) -> ReadAnswers] :
        LET out == Results(motors, answers)
            l == ReadLoop(o, motors, out, 1, <<>>, 0, 0, <<>>)
        IN /\ op' = o
           /\ arg' = NoArg
           /\ outcome' = out
           /\ invoked' = l.calls
           /\ ret' = ReadResult(o, l.errors, l.sum, l.count)
    /\ UNCHANGED <<status, motors, write_error_strategy>>

\* ------------------------------------------------------------- flag protocol
\* A slip of the result of a flag read: the errors are dropped.
FlagResultSwallowing(errors) == Ok(FALSE)

\* `if errors.is_empty() { Ok(false) } else { Err(MotorGroupError::new(errors)) }`
FlagResult(errors) ==
    IF errors = <<>> THEN Ok(FALSE) ELSE ErrOf(new(errors))

\* A slip of the flag loop: a true flag after an error reports the error.
RECURSIVE FlagLoopErrorsFirst(_, _, _, _, _, _)
FlagLoopErrorsFirst(o, ms, out, i, errors, calls) ==
    IF i > Len(ms)
    THEN [ret |-> IF errors = <<>> THEN Ok(FALSE) ELSE ErrOf(new(errors)),
          calls |-> calls]
    ELSE LET r == out[i]
             calls1 == Append(calls, Call(i, o))
         IN IF r = Ok(TRUE)
            THEN [ret |-> IF errors = <<>> THEN Ok(TRUE) ELSE ErrOf(new(errors)),
                  calls |-> calls1]
            ELSE IF r.tag = "Err"
            THEN FlagLoopErrorsFirst(o, ms, out, i + 1, Append(errors, r.error), calls1)
            ELSE FlagLoopErrorsFirst(o, ms, out, i + 1, errors, calls1)

\* `for motor in self.motors.as_ref()` of a flag read, from motor i on:
\* Ok(true) returns at once, an error is pushed, Ok(false) does nothing.
RECURSIVE FlagLoop(_, _, _, _, _, _)
FlagLoop(o, ms, out, i, errors, calls) ==
    IF i > Len(ms) THEN [ret |-> FlagResult(errors), calls |-> calls]
    ELSE LET r == out[i]
             calls1 == Append(calls, Call(i, o))
         IN IF r = Ok(TRUE) THEN [ret |-> Ok(TRUE), calls |-> calls1]
            ELSE IF r.tag = "Err"
            THEN FlagLoop(o, ms, out, i + 1, Append(errors, r.error), calls1)
            ELSE FlagLoop(o, ms, out, i + 1, errors, calls1)

\* A flag read of the group.
Flag(o) ==
    /\ status = "live"
    /\ \E answers \in [1..Len(motors) -> FlagAnswers] :
        LET out == Results(motors, answers)
            l == FlagLoop(o, motors, out, 1, <<>>, <<>>)
        IN /\ op' = o
           /\ arg' = NoArg
           /\ outcome' = out
           /\ invoked' = l.calls
           /\ ret' = l.ret
    /\ UNCHANGED <<status, motors, write_error_strategy>>

\* ---------------------------------------------------------- aggregate queries
\* What Motor::max_voltage returns: 8 V for an EXP motor, 12 V for a V5 one.
MaxVoltages == {8, 12}

\* A slip of the scan: `all` in place of `any`.
RECURSIVE AllLoop(_, _, _, _)
AllLoop(method, out, i, calls) ==
    IF i > Len(out) THEN [ret |-> TRUE, calls |-> calls]
    ELSE LET calls1 == Append(calls, Call(i, method))
         IN IF ~out[i] THEN [ret |-> FALSE, calls |-> calls1]
            ELSE AllLoop(method, out, i + 1, calls1)

\* `.iter().any(|motor| motor.is_exp())`, from motor i on: the scan ends at
\* the first motor that answers true.
RECURSIVE AnyLoop(_, _, _, _)
AnyLoop(method, out, i, calls) ==
    IF i > Len(out) THEN [ret |-> FALSE, calls |-> calls]
    ELSE LET calls1 == Append(calls, Call(i, method))
         IN IF out[i] THEN [ret |-> TRUE, calls |-> calls1]
            ELSE AnyLoop(method, out, i + 1, calls1)

\* A slip of the reduction: the smaller of the two.
f64_min(a, b) == IF a <= b THEN a ELSE b

\* f64::max
f64_max(a, b) == IF a >= b THEN a ELSE b

\* `.reduce(f64::max)`, from the value i on, None for no value at all.
RECURSIVE Reduce(_, _, _)
Reduce(out, i, acc) ==
    IF i > Len(out) THEN acc
    ELSE Reduce(out, i + 1,
                IF acc = None THEN Some(out[i]) ELSE Some(f64_max(acc[1], out[i])))

\* `.unwrap()`
Unwrap(option) == IF option = None THEN Panic ELSE option[1]

\* `.iter().map(|motor| motor.max_voltage())`: every motor is asked.
MapLoop(method, out) == [i \in 1..Len(out) |-> Call(i, method)]

AggregateOps == {"has_exp", "has_v5", "max_voltage"}

\* What a motor can answer to the call an aggregate query makes.
AggregateAnswers(o) == IF o = "max_voltage" THEN MaxVoltages ELSE BOOLEAN

\* The reduction of an aggregate query over the answers of the motors.
AggregateLoop(o, answers) ==
    IF o = "has_exp" THEN AnyLoop("is_exp", answers, 1, <<>>)
    ELSE IF o = "has_v5" THEN AnyLoop("is_v5", answers, 1, <<>>)
    ELSE [ret |-> Unwrap(Reduce(answers, 1, None)),
          calls |-> MapLoop("max_voltage", answers)]

\* An aggregate query of the group: it cannot fail; the motors answer with
\* plain values and the group returns a plain value.
Aggregate(o) ==
    /\ status = "live"
    /\ \E answers \in [1..Len(motors) -> AggregateAnswers(o)] :
        LET l == AggregateLoop(o, answers)
        IN /\ op' = o
           /\ arg' = NoArg
           /\ outcome' = answers
           /\ invoked' = l.calls
           /\ ret' = l.ret
    /\ UNCHANGED <<status, motors, write_error_strategy>>

\* ------------------------------------------------------------- construction
\* The motor collections a caller may hand to MotorGroup::new: the first n
\* motors, n = 0 included.
MotorLists == {[i \in 1..n |-> i] : n \in 0..MaxMotors}

\* A slip of the default: Stop carries #[default].
DefaultStrategyStop == "Stop"

\* WriteErrorStrategy::default()
DefaultStrategy == "Ignore"

\* A slip of MotorGroup::new: the assertion is missing.
MotorGroup_new_unchecked ==
    /\ status = "unconstructed"
    /\ \E ms \in MotorLists :
        /\ arg' = ms
        /\ status' = "live"
        /\ motors' = ms
        /\ write_error_strategy' = DefaultStrategy
        /\ ret' = "Self"
    /\ op' = "new"
    /\ UNCHANGED <<outcome, invoked, handles, borrow, via>>

\* MotorGroup::new: asserts a non-empty collection.
MotorGroup_new ==
    /\ status = "unconstructed"
    /\ \E ms \in MotorLists :
        /\ arg' = ms
        /\ IF ms = <<>>
           THEN /\ status' = "panicked"
                /\ ret' = Panic
                /\ UNCHANGED <<motors, write_error_strategy>>
           ELSE /\ status' = "live"
                /\ motors' = ms
                /\ write_error_strategy' = DefaultStrategy
                /\ ret' = "Self"
    /\ op' = "new"
    /\ UNCHANGED <<outcome, invoked, handles, borrow, via>>

\* A slip of the setter: once Stop, the strategy stays Stop.
SetWriteErrorStrategy_sticky ==
    /\ status = "live"
    /\ \E mode \in {"Ignore", "Stop"} :
        /\ arg' = mode
        /\ write_error_strategy' =
              IF write_error_strategy = "Stop" THEN "Stop" ELSE mode
    /\ op' = "write_error_strategy"
    /\ outcome' = <<>>
    /\ invoked' = <<>>
    /\ ret' = "&mut Self"
    /\ UNCHANGED <<status, motors, handles, borrow, via>>

\* MotorGroup::write_error_strategy: sets the strategy, returns the group.
SetWriteErrorStrategy ==
    /\ status = "live"
    /\ \E mode \in {"Ignore", "Stop"} :
        /\ arg' = mode
        /\ write_error_strategy' = mode
    /\ op' = "write_error_strategy"
    /\ outcome' = <<>>
    /\ invoked' = <<>>
    /\ ret' = "&mut Self"
    /\ UNCHANGED <<status, motors, handles, borrow, via>>

\* ---------------------------------------------------------------- operations
set_target == Direct(Write("set_target"))
brake == Direct(Write("brake"))
set_velocity == Direct(Write("set_velocity"))
set_voltage == Direct(Write("set_voltage"))
set_position_target == Direct(Write("set_position_target"))
set_profiled_velocity == Direct(Write("set_profiled_velocity"))
set_gearset == Direct(Write("set_gearset"))
reset_position == Direct(Write("reset_position"))
set_position == Direct(Write("set_position"))
set_current_limit == Direct(Write("set_current_limit"))
set_voltage_limit == Direct(Write("set_voltage_limit"))
set_direction == Direct(Write("set_direction"))

velocity == Direct(Read("velocity"))
power == Direct(Read("power"))
torque == Direct(Read("torque"))
voltage == Direct(Read("voltage"))
position == Direct(Read("position"))
current == Direct(Read("current"))
efficiency == Direct(Read("efficiency"))
temperature == Direct(Read("temperature"))

is_over_temperature == Direct(Flag("is_over_temperature"))
is_over_current == Direct(Flag("is_over_current"))
is_driver_fault == Direct(Flag("is_driver_fault"))
is_driver_over_current == Direct(Flag("is_driver_over_current"))

has_exp == Direct(Aggregate("has_exp"))
has_v5 == Direct(Aggregate("has_v5"))
max_voltage == Direct(Aggregate("max_voltage"))

\* `?` on the Err of a write or of a flag read, in a function that returns a
\* MotorError: the MotorGroupError on record is converted.  The conversion
\* is implemented for MotorGroupError<()> alone.
into ==
    /\ status = "live"
    /\ op \in WriteOps \cup FlagOps
    /\ ret.tag = "Err"
    /\ op' = "into"
    /\ arg' = ret.error
    /\ ret' = MotorError_from(ret.error)
    /\ UNCHANGED <<status, motors, write_error_strategy, outcome, invoked,
                   handles, borrow, via>>

\* ------------------------------------------------------------- specification
Init ==
    /\ status = "unconstructed"
    /\ motors = <<>>
    /\ write_error_strategy = DefaultStrategy
    /\ op = "none"
    /\ arg = NoArg
    /\ outcome = <<>>
    /\ invoked = <<>>
    /\ ret = "none"
    /\ handles = 0
    /\ borrow = 0
    /\ via = 0

Next ==
    \/ MotorGroup_new
    \/ SetWriteErrorStrategy
    \/ set_target
    \/ brake
    \/ set_velocity
    \/ set_voltage
    \/ set_position_target
    \/ set_profiled_velocity
    \/ set_gearset
    \/ reset_position
    \/ set_position
    \/ set_current_limit
    \/ set_voltage_limit
    \/ set_direction
    \/ velocity
    \/ power
    \/ torque
    \/ voltage
    \/ position
    \/ current
    \/ efficiency
    \/ temperature
    \/ is_over_temperature
    \/ is_over_current
    \/ is_driver_fault
    \/ is_driver_over_current
    \/ has_exp
    \/ has_v5
    \/ max_voltage
    \/ into

Spec == Init /\ [][Next]_vars

\* ----------------------------------------------- MotorGroupError on its own
\* The methods of MotorGroupError, and a second specification that applies
\* the constructors to any list of errors, the empty one included, and the
\* methods to what the constructors return.

\* The longest list of errors handed to a constructor.
MaxErrors == 3

\* The kinds of MotorError: the two the predicates test for and another.
MotorErrorKinds == ErrorKinds \cup {"SetGearsetExp"}

\* The lists of at most MaxErrors errors; entry i is an error of motor i.
ErrorLists ==
    UNION {{[i \in 1..n |-> MotorError(kinds[i], i)] :
                kinds \in [1..n -> MotorErrorKinds]} : n \in 0..MaxErrors}

Constructors ==
    {"MotorGroupError::new", "MotorGroupError::with_result",
     "MotorGroupError::with_empty_result"}

\* A constructor is applied to the arguments drawn in ErrorInit.
Construct(name, value) ==
    /\ op = "none"
    /\ op' = name
    /\ ret' = value
    /\ UNCHANGED <<status, motors, write_error_strategy, arg, outcome, invoked,
                   handles, borrow, via>>

MotorGroupError_new == Construct("MotorGroupError::new", new(arg.errors))

MotorGroupError_with_result ==
    Construct("MotorGroupError::with_result", with_result(arg.errors, arg.result))

MotorGroupError_with_empty_result ==
    Construct("MotorGroupError::with_empty_result", with_empty_result(arg.errors))

\* A method is applied to the error a constructor returned; the error is
\* the argument then.
Method(name, value) ==
    /\ op \in Constructors
    /\ ret /= Panic
    /\ op' = name
    /\ arg' = ret
    /\ ret' = value
    /\ UNCHANGED <<status, motors, write_error_strategy, outcome, invoked,
                   handles, borrow, via>>

MotorGroupError_result == Method("result", result(ret))
MotorGroupError_first == Method("first", first(ret))
MotorGroupError_has_busy_error == Method("has_busy_error", has_busy_error(ret))
MotorGroupError_has_port_error == Method("has_port_error", has_port_error(ret))
MotorGroupError_into == Method("into", MotorError_from(ret))

ErrorInit ==
    /\ status = "unconstructed"
    /\ motors = <<>>
    /\ write_error_strategy = DefaultStrategy
    /\ op = "none"
    /\ arg \in [errors : ErrorLists, result : Readings]
    /\ outcome = <<>>
    /\ invoked = <<>>
    /\ ret = "none"
    /\ handles = 0
    /\ borrow = 0
    /\ via = 0

ErrorNext ==
    \/ MotorGroupError_new
    \/ MotorGroupError_with_result
    \/ MotorGroupError_with_empty_result
    \/ MotorGroupError_result
    \/ MotorGroupError_first
    \/ MotorGroupError_has_busy_error
    \/ MotorGroupError_has_port_error
    \/ MotorGroupError_into

ErrorSpec == ErrorInit /\ [][ErrorNext]_vars

\* -------------------------------------------------------------- SharedMotors
\* SharedMotors(pub Rc<RefCell<MotorGroup>>) and a third specification: a
\* group is put in a SharedMotors, the SharedMotors is cloned, and every
\* method is called through every handle.

\* The largest number of motors of a group that is shared, and the largest
\* number of handles to it.
MaxSharedMotors == 2
MaxHandles == 2

\* RefCell::borrow_mut and RefCell::borrow succeed on these borrow flags and
\* panic on the others.
CanBorrowMut(flag) == flag = 0
CanBorrow(flag) == flag >= 0

\* The flag while the RefMut, resp. the Ref, is alive.
TakeRefMut(flag) == flag - 1
TakeRef(flag) == flag + 1

\* A slip: the RefMut is kept alive (leaked) when the method returns.
ForgetRefMut(flag) == flag

\* The RefMut, a temporary of the statement, is dropped when the statement
\* ends; so is the Ref.
DropRefMut(flag) == flag + 1
DropRef(flag) == flag - 1

\* A borrow of a RefCell that is borrowed already panics: the program stops.
BorrowPanic(o) ==
    /\ status' = "panicked"
    /\ op' = o
    /\ arg' = NoArg
    /\ outcome' = <<>>
    /\ invoked' = <<>>
    /\ ret' = Panic
    /\ UNCHANGED <<motors, write_error_strategy, borrow>>

\* `self.0.borrow_mut().o(..)` through the handle h.
ViaBorrowMut(h, o, call) ==
    /\ status = "live"
    /\ via' = h
    /\ UNCHANGED handles
    /\ IF CanBorrowMut(borrow)
       THEN call /\ borrow' = DropRefMut(TakeRefMut(borrow))
       ELSE BorrowPanic(o)

\* `self.0.borrow().o()` through the handle h.
ViaBorrow(h, o, call) ==
    /\ status = "live"
    /\ via' = h
    /\ UNCHANGED handles
    /\ IF CanBorrow(borrow)
       THEN call /\ borrow' = DropRef(TakeRef(borrow))
       ELSE BorrowPanic(o)

\* A method of SharedMotors that calls the write o of the group.
SharedWrite(o) == \E h \in 1..handles : ViaBorrowMut(h, o, Write(o))

\* A method of SharedMotors that calls a getter of the group.
SharedRead(o) == \E h \in 1..handles : ViaBorrow(h, o, Read(o))
SharedFlag(o) == \E h \in 1..handles : ViaBorrow(h, o, Flag(o))
SharedAggregate(o) == \E h \in 1..handles : ViaBorrow(h, o, Aggregate(o))

\* SharedMotors::new: the group is moved into a new Rc<RefCell<..>>.
SharedMotors_new ==
    /\ status = "live"
    /\ handles = 0
    /\ handles' = 1
    /\ borrow' = 0
    /\ via' = 0
    /\ op' = "SharedMotors::new"
    /\ arg' = NoArg
    /\ outcome' = <<>>
    /\ invoked' = <<>>
    /\ ret' = "Self"
    /\ UNCHANGED <<status, motors, write_error_strategy>>

\* #[derive(Clone)]: the Rc is cloned; the new handle holds the same RefCell.
SharedMotors_clone ==
    /\ status = "live"
    /\ handles >= 1
    /\ handles < MaxHandles
    /\ \E h \in 1..handles : via' = h
    /\ handles' = handles + 1
    /\ op' = "clone"
    /\ arg' = NoArg
    /\ outcome' = <<>>
    /\ invoked' = <<>>
    /\ ret' = "Self"
    /\ UNCHANGED <<status, motors, write_error_strategy, borrow>>

\* SharedMotors::write_error_strategy: the setter of the group is called
\* through a RefMut and what it returns is dropped; the handle is returned,
\* as a shared reference.
SharedMotors_write_error_strategy ==
    \E h \in 1..handles :
        ViaBorrowMut(h, "write_error_strategy",
            /\ \E mode \in {"Ignore", "Stop"} :
                /\ arg' = mode
                /\ write_error_strategy' = mode
            /\ op' = "write_error_strategy"
            /\ outcome' = <<>>
            /\ invoked' = <<>>
            /\ ret' = "&Self"
            /\ UNCHANGED <<status, motors>>)

SharedMotors_set_target == SharedWrite("set_target")
SharedMotors_brake == SharedWrite("brake")
SharedMotors_set_velocity == SharedWrite("set_velocity")
SharedMotors_set_voltage == SharedWrite("set_voltage")
SharedMotors_set_position_target == SharedWrite("set_position_target")
SharedMotors_set_profiled_velocity == SharedWrite("set_profiled_velocity")
SharedMotors_set_gearset == SharedWrite("set_gearset")
SharedMotors_reset_position == SharedWrite("reset_position")
SharedMotors_set_position == SharedWrite("set_position")
SharedMotors_set_current_limit == SharedWrite("set_current_limit")
SharedMotors_set_voltage_limit == SharedWrite("set_voltage_limit")
SharedMotors_set_direction == SharedWrite("set_direction")

SharedMotors_has_exp == SharedAggregate("has_exp")
SharedMotors_has_v5 == SharedAggregate("has_v5")
SharedMotors_max_voltage == SharedAggregate("max_voltage")

SharedMotors_velocity == SharedRead("velocity")
SharedMotors_power == SharedRead("power")
SharedMotors_torque == SharedRead("torque")
SharedMotors_voltage == SharedRead("voltage")
SharedMotors_position == SharedRead("position")
SharedMotors_current == SharedRead("current")
SharedMotors_efficiency == SharedRead("efficiency")
SharedMotors_temperature == SharedRead("temperature")

SharedMotors_is_over_temperature == SharedFlag("is_over_temperature")
SharedMotors_is_over_current == SharedFlag("is_over_current")
SharedMotors_is_driver_fault == SharedFlag("is_driver_fault")
SharedMotors_is_driver_over_current == SharedFlag("is_driver_over_current")

\* The groups that are shared: the first n motors, n >= 1.
SharedMotorLists == {[i \in 1..n |-> i] : n \in 1..MaxSharedMotors}

\* The state after MotorGroup::new(motors).
SharedInit ==
    /\ status = "live"
    /\ motors \in SharedMotorLists
    /\ write_error_strategy = DefaultStrategy
    /\ op = "new"
    /\ arg = motors
    /\ outcome = <<>>
    /\ invoked = <<>>
    /\ ret = "Self"
    /\ handles = 0
    /\ borrow = 0
    /\ via = 0

SharedNext ==
    \/ SharedMotors_new
    \/ SharedMotors_clone
    \/ SharedMotors_write_error_strategy
    \/ SharedMotors_set_target
    \/ SharedMotors_brake
    \/ SharedMotors_set_velocity
    \/ SharedMotors_set_voltage
    \/ SharedMotors_set_position_target
    \/ SharedMotors_set_profiled_velocity
    \/ SharedMotors_set_gearset
    \/ SharedMotors_has_exp
    \/ SharedMotors_has_v5
    \/ SharedMotors_max_voltage
    \/ SharedMotors_velocity
    \/ SharedMotors_power
    \/ SharedMotors_torque
    \/ SharedMotors_voltage
    \/ SharedMotors_position
    \/ SharedMotors_current
    \/ SharedMotors_efficiency
    \/ SharedMotors_reset_position
    \/ SharedMotors_set_position
    \/ SharedMotors_set_current_limit
    \/ SharedMotors_set_voltage_limit
    \/ SharedMotors_temperature
    \/ SharedMotors_is_over_temperature
    \/ SharedMotors_is_over_current
    \/ SharedMotors_is_driver_fault
    \/ SharedMotors_is_driver_over_current
    \/ SharedMotors_set_direction

SharedSpec == SharedInit /\ [][SharedNext]_vars

\* -------------------------------------------------------------------- claims
\* The number of motors of the group.
N == Len(motors)

IsErr(r) == r.tag = "Err"

\* The motors that fail, resp. succeed, in the call on record.
Failing == {i \in 1..N : IsErr(outcome[i])}
Succeeding == (1..N) \ Failing

\* The errors of the first k motors, in motor order.
ErrorsUpTo(k) ==
    LET failed == SelectSeq(SubSeq(outcome, 1, k), IsErr)
    IN [j \in 1..Len(failed) |-> failed[j].error]

\* The calls of the method of the operation on the motors 1..k, in order.
CallsUpTo(k) == [i \in 1..k |-> Call(i, op)]

\* The sum of the values read from the motors in S.
RECURSIVE SumOver(_)
SumOver(S) ==
    IF S = {} THEN 0
    ELSE LET i == CHOOSE i \in S : TRUE
         IN outcome[i].value + SumOver(S \ {i})

Min(S) == CHOOSE i \in S : \A j \in S : i <= j

\* C1: under Ignore, a write with at least one failing motor calls all N
\* motors and returns Err with exactly the errors of the failing motors, one
\* each, in ascending motor order.
C1_IgnoreWriteCollectsAll ==
    (op \in WriteOps /\ write_error_strategy = "Ignore" /\ Failing /= {}) =>
        /\ invoked = CallsUpTo(N)
        /\ ret.tag = "Err"
        /\ ret.error.errors = ErrorsUpTo(N)
        /\ Len(ret.error.errors) = Cardinality(Failing)

\* Three motors, the first and the last fail a write under Ignore.
C1_Witness ==
    /\ op = "set_voltage"
    /\ write_error_strategy = "Ignore"
    /\ N = 3
    /\ Failing = {1, 3}
    /\ Len(invoked) = 3
    /\ ret.tag = "Err"
    /\ Len(ret.error.errors) = 2

\* C2: under Stop, a write whose lowest failing motor is i1 calls the motors
\* 1..i1 and no later one, and returns Err with the single error of i1.
C2_StopWriteHaltsAtFirst ==
    (op \in WriteOps /\ write_error_strategy = "Stop" /\ Failing /= {}) =>
        LET i1 == Min(Failing)
        IN /\ invoked = CallsUpTo(i1)
           /\ ret.tag = "Err"
           /\ ret.error.errors = <<outcome[i1].error>>

\* Three motors, the second and the third would fail a write under Stop.
C2_Witness ==
    /\ op = "set_target"
    /\ write_error_strategy = "Stop"
    /\ N = 3
    /\ Failing = {2, 3}
    /\ Len(invoked) = 2
    /\ ret.tag = "Err"

\* C3: a write returns Ok(()) exactly when no motor it called returned an
\* error; otherwise it returns Err of a MotorGroupError without a result.
C3_WriteOkIffNoError ==
    op \in WriteOps =>
        LET failed == {j \in 1..Len(invoked) : IsErr(outcome[invoked[j].index])}
        IN /\ (ret = Ok(Unit)) <=> (failed = {})
           /\ failed /= {} =>
                /\ ret.tag = "Err"
                /\ ret.error.tag = "MotorGroupError"
                /\ ret.error.result = None

\* A write that succeeded on one motor and failed on another.
C3_Witness ==
    /\ op = "set_direction"
    /\ N = 2
    /\ Failing = {2}
    /\ Len(invoked) = 2
    /\ ret.tag = "Err"
    /\ ret.error.result = None

\* C4: a numeric read whose N motors all succeed returns Ok of the sum of
\* the N values divided by N.
C4_ReadAllSucceed ==
    (op \in ReadOps /\ Failing = {}) =>
        ret = Ok(Divide(op, SumOver(1..N), N))

\* Three motors read -3, 2 and 2: the average is 1/3.
C4_Witness ==
    /\ op = "velocity"
    /\ N = 3
    /\ outcome = <<Ok(-MaxReading), Ok(MaxReading - 1), Ok(MaxReading - 1)>>
    /\ ret = Ok(DivF64(MaxReading - 2, 3))

\* C5: a numeric read where K motors fail, 1 <= K < N, returns Err whose
\* result is Some of the sum over the succeeding motors divided by N - K and
\* whose error list has the K errors in motor order.
C5_ReadPartialFailure ==
    (op \in ReadOps /\ Failing /= {} /\ Succeeding /= {}) =>
        /\ ret.tag = "Err"
        /\ ret.error.result =
              Some(Divide(op, SumOver(Succeeding), N - Cardinality(Failing)))
        /\ Len(ret.error.errors) = Cardinality(Failing)
        /\ ret.error.errors = ErrorsUpTo(N)

\* Three motors, the second fails, the others read 2 and 2.
C5_Witness ==
    /\ op = "temperature"
    /\ N = 3
    /\ Failing = {2}
    /\ ret.tag = "Err"
    /\ ret.error.result = Some(<<MaxReading - 1, 1>>)

\* C6: a numeric read whose N motors all fail returns Err whose result is
\* None and whose error list has N entries.
C6_ReadAllFail ==
    (op \in ReadOps /\ Succeeding = {}) =>
        /\ ret.tag = "Err"
        /\ ret.error.result = None
        /\ Len(ret.error.errors) = N

\* Three motors, all fail a read.
C6_Witness ==
    /\ op = "current"
    /\ N = 3
    /\ Succeeding = {}
    /\ ret.tag = "Err"
    /\ Len(ret.error.errors) = 3

\* What a numeric read returns, as a function of the operation and of what
\* the motors answer alone.
ReadValue ==
    IF Failing = {} THEN Ok(Divide(op, SumOver(1..N), N))
    ELSE Err([tag |-> "MotorGroupError",
              errors |-> ErrorsUpTo(N),
              result |-> IF Succeeding = {} THEN None
                         ELSE Some(Divide(op, SumOver(Succeeding),
                                          Cardinality(Succeeding)))])

\* C7: the strategy does not affect numeric reads: under Ignore and under
\* Stop alike the motors called are all N, and the value returned is the one
\* the answers of the motors determine.
C7_ReadIgnoresStrategy ==
    \A strategy \in {"Ignore", "Stop"} :
        (op \in ReadOps /\ write_error_strategy = strategy) =>
            /\ invoked = CallsUpTo(N)
            /\ ret = ReadValue

\* Under Stop, the first of three motors fails a read, the others are read.
C7_Witness ==
    /\ op = "power"
    /\ write_error_strategy = "Stop"
    /\ N = 3
    /\ Failing = {1}
    /\ Len(invoked) = 3
    /\ ret.tag = "Err"
    /\ ret.error.result /= None

\* The motors that report a true flag.
Raised == {i \in 1..N : outcome[i] = Ok(TRUE)}

\* C8: a flag read where k is the lowest motor reporting true returns
\* Ok(true) and calls no motor after k, whatever errors came before k.
C8_FlagShortCircuits ==
    (op \in FlagOps /\ Raised /= {}) =>
        /\ ret = Ok(TRUE)
        /\ invoked = CallsUpTo(Min(Raised))

\* The first motor fails, the second reports true; the third, which would
\* report true as well, is not asked.
C8_Witness ==
    /\ op = "is_over_temperature"
    /\ N = 3
    /\ Failing = {1}
    /\ Raised = {2, 3}
    /\ Len(invoked) = 2
    /\ ret = Ok(TRUE)

\* C9: a flag read where no motor reports true returns Ok(false) if no motor
\* fails, and otherwise Err with the errors of the failing motors in motor
\* order and no result.
C9_FlagNoneRaised ==
    (op \in FlagOps /\ Raised = {}) =>
        IF Failing = {} THEN ret = Ok(FALSE)
        ELSE /\ ret.tag = "Err"
             /\ ret.error.errors = ErrorsUpTo(N)
             /\ ret.error.result = None

\* No motor reports true, the first and the third of three fail.
C9_Witness ==
    /\ op = "is_driver_fault"
    /\ N = 3
    /\ Raised = {}
    /\ Failing = {1, 3}
    /\ ret.tag = "Err"
    /\ Len(ret.error.errors) = 2

\* C10: every MotorGroupError a group operation returns has a non-empty
\* error list: no call of new, with_result or with_empty_result made by the
\* group fails its assertion.
C10_ErrorsNeverEmpty ==
    op \in WriteOps \cup ReadOps \cup FlagOps =>
        /\ ret /= Panic
        /\ ret.tag = "Err" => Len(ret.error.errors) >= 1

\* A read that failed on one motor only.
C10_Witness ==
    /\ op = "efficiency"
    /\ N = 2
    /\ ret.tag = "Err"
    /\ Len(ret.error.errors) = 1

\* C11: MotorGroup::new of an empty collection panics and returns no group,
\* so that no group has zero motors.
C11_EmptyGroupPanics ==
    /\ (op = "new" /\ arg = <<>>) => (status = "panicked" /\ ret = Panic)
    /\ status = "live" => Len(motors) >= 1

\* MotorGroup::new was called with no motors.
C11_Witness ==
    /\ op = "new"
    /\ arg = <<>>
    /\ status = "panicked"

\* C12: each of new, with_result and with_empty_result panics when given an
\* empty list of errors, and returns no value then.
C12_ConstructorsPanicOnEmpty ==
    (op \in Constructors /\ arg.errors = <<>>) => ret = Panic

\* with_result was called with an empty list.
C12_Witness ==
    /\ op = "MotorGroupError::with_result"
    /\ arg.errors = <<>>
    /\ ret = Panic

\* The errors the motors returned during the call on record, in call order.
ErrorsReturned ==
    LET results == [j \in 1..Len(invoked) |-> outcome[invoked[j].index]]
        failed == SelectSeq(results, IsErr)
    IN [j \in 1..Len(failed) |-> failed[j].error]

\* The motors that were called and failed.
FailedCalls == {i \in Failing : \E j \in 1..Len(invoked) : invoked[j].index = i}

GroupOps == WriteOps \cup ReadOps \cup FlagOps

\* C13: for every MotorGroupError a group operation returns, first() does
\* not fail and is errors[0], the error of the lowest motor that failed
\* during the call.
C13_FirstIsEarliest ==
    (op \in GroupOps /\ ret.tag = "Err") =>
        /\ first(ret.error) /= Panic
        /\ first(ret.error) = ret.error.errors[1]
        /\ first(ret.error) = outcome[Min(FailedCalls)].error

\* A write under Ignore that failed on the second and the third motor: the
\* first error is the one of the second motor.
C13_Witness ==
    /\ op = "brake"
    /\ N = 3
    /\ Failing = {2, 3}
    /\ ret.tag = "Err"
    /\ Len(ret.error.errors) = 2
    /\ first(ret.error) = MotorError("Busy", 2)

\* C14, as claimed: in every group operation every error a motor returned
\* during the call is in the error list of the value returned.
C14_NoErrorSwallowed ==
    (op \in GroupOps /\ ErrorsReturned /= <<>>) =>
        /\ ret.tag = "Err"
        /\ ret.error.errors = ErrorsReturned

\* C14, amended: a flag read in which a motor reports true returns Ok(true)
\* and drops the errors of the motors called before; every other call keeps
\* every error a motor returned, in motor order, in the list it returns.
C14_ErrorsKeptUnlessFlagRaised ==
    op \in GroupOps =>
        IF op \in FlagOps /\ Raised /= {} THEN ret = Ok(TRUE)
        ELSE ErrorsReturned /= <<>> =>
                /\ ret.tag = "Err"
                /\ ret.error.errors = ErrorsReturned

\* A flag read where no motor reports true and the second of two fails.
C14_Witness ==
    /\ op = "is_over_current"
    /\ N = 2
    /\ Raised = {}
    /\ Failing = {2}
    /\ ret.tag = "Err"
    /\ ret.error.errors = <<MotorError("Busy", 2)>>

\* C15, as claimed: a failing Result of any group call tells the outcome of
\* each of the N motors: all were called and each failing one has an entry.
C15_FullPicture ==
    (op \in GroupOps /\ ret.tag = "Err") =>
        /\ invoked = CallsUpTo(N)
        /\ ret.error.errors = ErrorsUpTo(N)

\* C15, amended: so it is for numeric reads, flag reads and writes under
\* Ignore; a failing write under Stop carries the first failure alone, and
\* the motors after it were not called.
C15_FullPictureUnlessStop ==
    (op \in GroupOps /\ ret.tag = "Err") =>
        IF op \in WriteOps /\ write_error_strategy = "Stop"
        THEN /\ Failing /= {}
             /\ invoked = CallsUpTo(Min(Failing))
             /\ Len(ret.error.errors) = 1
        ELSE /\ invoked = CallsUpTo(N)
             /\ ret.error.errors = ErrorsUpTo(N)

\* A numeric read, the strategy being Stop, where the first and the third of
\* three motors fail: all three were called, both errors are carried.
C15_Witness ==
    /\ op = "torque"
    /\ write_error_strategy = "Stop"
    /\ N = 3
    /\ Failing = {1, 3}
    /\ Len(invoked) = 3
    /\ ret.tag = "Err"
    /\ Len(ret.error.errors) = 2

\* C16, as claimed: under Stop a write calls neither the first failing motor
\* nor any motor after it.
C16_StopLeavesFailingUntouched ==
    (op \in WriteOps /\ write_error_strategy = "Stop" /\ Failing /= {}) =>
        \A j \in 1..Len(invoked) : invoked[j].index < Min(Failing)

\* C16, amended: under Stop a write calls no motor after the first failing
\* one; the first failing motor itself is called, and so is every motor
\* before it.
C16_StopLeavesLaterUntouched ==
    (op \in WriteOps /\ write_error_strategy = "Stop" /\ Failing /= {}) =>
        /\ \A j \in 1..Len(invoked) : invoked[j].index <= Min(Failing)
        /\ \A i \in 1..Min(Failing) :
              \E j \in 1..Len(invoked) : invoked[j] = Call(i, op)

\* Under Stop the first of three motors fails set_position: it is the one
\* motor called.
C16_Witness ==
    /\ op = "set_position"
    /\ write_error_strategy = "Stop"
    /\ N = 3
    /\ Failing = {1}
    /\ invoked = <<Call(1, "set_position")>>

\* The motors on which the write on record took effect.
Applied ==
    {i \in Succeeding : \E j \in 1..Len(invoked) : invoked[j].index = i}

\* C17: under Stop a write takes effect on every motor of the group or on
\* none.
C17_StopAllOrNothing ==
    (op \in WriteOps /\ write_error_strategy = "Stop") =>
        (Applied = 1..N \/ Applied = {})

\* What a write under Ignore calls and returns.
IgnoreProtocol ==
    /\ invoked = CallsUpTo(N)
    /\ ret = IF Failing = {} THEN Ok(Unit)
             ELSE Err([tag |-> "MotorGroupError",
                       errors |-> ErrorsUpTo(N), result |-> None])

\* What a write under Stop calls and returns.
StopProtocol ==
    IF Failing = {} THEN invoked = CallsUpTo(N) /\ ret = Ok(Unit)
    ELSE /\ invoked = CallsUpTo(Min(Failing))
         /\ ret = Err([tag |-> "MotorGroupError",
                       errors |-> <<outcome[Min(Failing)].error>>,
                       result |-> None])

\* C18: a group just built has the strategy Ignore, and a write called on it
\* before any call of the setter follows the Ignore protocol.
C18_DefaultIsIgnore ==
    [][(op = "new" /\ status = "live") =>
          /\ write_error_strategy = "Ignore"
          /\ op' \in WriteOps => IgnoreProtocol']_vars

\* A group of three motors was just built.
C18_Witness ==
    /\ op = "new"
    /\ status = "live"
    /\ N = 3
    /\ write_error_strategy = "Ignore"

\* C19: the setter sets the strategy to its argument, calls no motor and
\* returns the group; no other operation changes the strategy; a write
\* follows the protocol of the strategy in force when it is called.  Hence
\* each write follows the strategy of the latest call of the setter before
\* it, or Ignore if there is none.
C19_SetterGovernsWrites ==
    [][/\ op' = "write_error_strategy" =>
            /\ write_error_strategy' = arg'
            /\ invoked' = <<>>
            /\ motors' = motors
            /\ ret' = "&mut Self"
       /\ (status = "live" /\ op' /= "write_error_strategy") =>
            write_error_strategy' = write_error_strategy
       /\ op' \in WriteOps =>
            IF write_error_strategy = "Stop" THEN StopProtocol'
            ELSE IgnoreProtocol']_vars

\* The setter was called with Stop.
C19_Witness ==
    /\ op = "write_error_strategy"
    /\ arg = "Stop"
    /\ write_error_strategy = "Stop"
    /\ invoked = <<>>

\* C20: has_busy_error is true exactly when some entry of the list is a Busy
\* error, has_port_error exactly when some entry is a Port error, wherever
\* the entry is in the list.
C20_BusyAndPortPredicates ==
    /\ op = "has_busy_error" =>
          (ret <=> \E i \in 1..Len(arg.errors) : arg.errors[i].kind = "Busy")
    /\ op = "has_port_error" =>
          (ret <=> \E i \in 1..Len(arg.errors) : arg.errors[i].kind = "Port")

\* has_busy_error finds a Busy error that is the last of three.
C20_Witness ==
    /\ op = "has_busy_error"
    /\ Len(arg.errors) = 3
    /\ arg.errors[1].kind = "Port"
    /\ arg.errors[2].kind = "SetGearsetExp"
    /\ arg.errors[3].kind = "Busy"
    /\ ret = TRUE

\* C21: converting a MotorGroupError a group operation returned into a
\* MotorError does not fail and yields the one error first() yields, the
\* entry at index 0, which is the error of the lowest motor that failed; the
\* other entries are not in the value.
C21_IntoIsFirst ==
    op = "into" =>
        /\ ret /= Panic
        /\ ret = first(arg)
        /\ ret = arg.errors[1]
        /\ ret = outcome[Min(FailedCalls)].error
        /\ DOMAIN ret = {"kind", "motor"}

\* The error of a write under Ignore that failed on the second and on the
\* third motor is converted: the error of the second motor is what remains.
C21_Witness ==
    /\ op = "into"
    /\ N = 3
    /\ Len(arg.errors) = 2
    /\ arg.errors[2] = MotorError("Port", 3)
    /\ ret = MotorError("Busy", 2)

\* C22: once the group is built, no operation, succeeding or failing, adds,
\* removes or reorders its motors: the sequence is the one handed to new, of
\* length at least 1, after every step.
C22_MotorsNeverChange ==
    [][/\ (op' = "new" /\ status' = "live") => motors' = arg'
       /\ status = "live" =>
            /\ status' = "live"
            /\ motors' = motors
            /\ Len(motors') >= 1]_vars

\* A write under Stop on three motors that all fail; the group still has its
\* three motors in the order given.
C22_Witness ==
    /\ op = "set_gearset"
    /\ write_error_strategy = "Stop"
    /\ Failing = {1, 2, 3}
    /\ ret.tag = "Err"
    /\ motors = <<1, 2, 3>>

\* C23: in one group call each motor is called at most once, a motor that
\* failed included, and the motors are called in strictly ascending order of
\* their index in the group, with the method of the operation.
C23_AscendingAtMostOnce ==
    /\ \A j, k \in 1..Len(invoked) :
          j < k => invoked[j].index < invoked[k].index
    /\ \A j \in 1..Len(invoked) : invoked[j].index \in 1..N
    /\ op \in GroupOps => \A j \in 1..Len(invoked) : invoked[j].method = op

\* A write under Ignore on three motors of which the first two fail: three
\* calls, one per motor.
C23_Witness ==
    /\ op = "reset_position"
    /\ write_error_strategy = "Ignore"
    /\ Failing = {1, 2}
    /\ invoked = <<Call(1, "reset_position"), Call(2, "reset_position"),
                   Call(3, "reset_position")>>

\* C24: given a non-empty list of errors, with_result(errors, r) gives an
\* error whose result() is Some(r), new(errors) and with_empty_result(errors)
\* one whose result() is None; the list stored is the list given, in length
\* and order.
C24_ConstructorsKeepInput ==
    (op \in Constructors /\ arg.errors /= <<>>) =>
        /\ ret /= Panic
        /\ ret.errors = arg.errors
        /\ result(ret) = IF op = "MotorGroupError::with_result"
                         THEN Some(arg.result) ELSE None

\* with_result was given three errors of three kinds and a result.
C24_Witness ==
    /\ op = "MotorGroupError::with_result"
    /\ arg.errors = <<MotorError("Busy", 1), MotorError("SetGearsetExp", 2),
                      MotorError("Port", 3)>>
    /\ arg.result = -MaxReading
    /\ ret.errors = arg.errors
    /\ result(ret) = Some(-MaxReading)

\* C25: has_exp is true exactly when some motor is an EXP motor, has_v5
\* exactly when some motor is a V5 motor, max_voltage is the largest of the
\* motors' max voltages; they return plain values, never an error, and
\* max_voltage does not fail on a group that was built.
C25_AggregateQueries ==
    /\ op \in AggregateOps \ {"max_voltage"} =>
          /\ ret \in BOOLEAN
          /\ ret <=> \E i \in 1..N : outcome[i]
    /\ op = "max_voltage" =>
          /\ ret \in MaxVoltages
          /\ \E i \in 1..N : outcome[i] = ret
          /\ \A i \in 1..N : outcome[i] <= ret

\* Of three motors the last alone is an EXP motor: has_exp is true.
C25_Witness ==
    /\ op = "has_exp"
    /\ outcome = <<FALSE, FALSE, TRUE>>
    /\ ret = TRUE

\* C28: no numeric read divides by a count of zero.  When the loop ends the
\* number of errors plus the count of successes is N; a read that returns Ok
\* divided by the count N >= 1, one that returns a result in its error
\* divided by a count >= 1, and with a count of 0 nothing is divided: the
\* error has no result.
C28_NoDivisionByZero ==
    op \in ReadOps =>
        LET l == ReadLoop(op, motors, outcome, 1, <<>>, 0, 0, <<>>)
        IN /\ Len(l.errors) + l.count = N
           /\ l.count = Cardinality(Succeeding)
           /\ ret.tag \in {"Ok", "Err"}
           /\ ret.tag = "Ok" =>
                /\ l.count = N
                /\ N >= 1
                /\ ret.value = Divide(op, l.sum, N)
           /\ ret.tag = "Err" =>
                IF l.count = 0 THEN ret.error.result = None
                ELSE ret.error.result = Some(Divide(op, l.sum, l.count))

\* position on three motors that all fail: the count is 0 and the error has
\* no result.
C28_Witness ==
    /\ op = "position"
    /\ N = 3
    /\ Succeeding = {}
    /\ ret.tag = "Err"
    /\ ret.error.result = None

\* C29: for the write on record and the answers of its motors, what the loop
\* does under Stop is the truncation of what it does under Ignore: both
\* results are Ok or both are Err; if Err, the list under Stop is the first
\* entry of the list under Ignore; and the same motors are called under
\* both when no motor fails or the last motor alone fails.  The call on
\* record is the one of the two that its strategy selects.
C29_StopTruncatesIgnore ==
    op \in WriteOps =>
        LET stop == WriteLoop(op, motors, outcome, "Stop", 1, <<>>, <<>>)
            ignore == WriteLoop(op, motors, outcome, "Ignore", 1, <<>>, <<>>)
            mine == IF write_error_strategy = "Stop" THEN stop ELSE ignore
        IN /\ invoked = mine.calls
           /\ ret = WriteResult(mine.errors)
           /\ WriteResult(stop.errors).tag = WriteResult(ignore.errors).tag
           /\ WriteResult(ignore.errors).tag = "Err" =>
                /\ stop.errors = <<ignore.errors[1]>>
                /\ stop.calls = SubSeq(ignore.calls, 1, Len(stop.calls))
           /\ (Failing = {} \/ Failing = {N}) => stop.calls = ignore.calls
           /\ (Failing /= {} /\ Failing /= {N}) =>
                Len(stop.calls) < Len(ignore.calls)

\* A write under Stop on three motors of which the second and the third
\* fail: one error, which is the first of the two that Ignore would return.
C29_Witness ==
    /\ op = "set_voltage_limit"
    /\ write_error_strategy = "Stop"
    /\ Failing = {2, 3}
    /\ ret.tag = "Err"
    /\ ret.error.errors = <<MotorError("Busy", 2)>>
    /\ Len(invoked) = 2

\* What a flag read returns, as a function of what the motors answer alone.
FlagValue ==
    IF Raised /= {} THEN Ok(TRUE)
    ELSE IF Failing = {} THEN Ok(FALSE)
    ELSE Err([tag |-> "MotorGroupError",
              errors |-> ErrorsUpTo(N), result |-> None])

\* C30: no write, numeric read or flag read, succeeding or failing, changes
\* the strategy; a numeric read or a flag read calls no write method of a
\* motor, only the getter of its own name; and what it returns is determined
\* by what the motors answer, so that the same read with the same answers
\* returns the same value and calls the same motors.
C30_OperationsKeepConfiguration ==
    /\ [](op \in ReadOps \cup FlagOps =>
            /\ \A j \in 1..Len(invoked) :
                  /\ invoked[j].method \notin WriteOps
                  /\ invoked[j].method = op
            /\ ret = IF op \in ReadOps THEN ReadValue ELSE FlagValue)
    /\ [][/\ op' \in GroupOps =>
               /\ write_error_strategy' = write_error_strategy
               /\ motors' = motors
          /\ (op \in ReadOps \cup FlagOps /\ op' = op /\ outcome' = outcome) =>
               (ret' = ret /\ invoked' = invoked)]_vars

\* A numeric read failed on the second of three motors while the strategy
\* was Stop: the strategy is still Stop.
C30_Witness ==
    /\ op = "voltage"
    /\ write_error_strategy = "Stop"
    /\ N = 3
    /\ Failing = {2}
    /\ ret.tag = "Err"
    /\ Len(invoked) = 3

\* The operations of the group that SharedMotors passes on.
SharedOps == GroupOps \cup AggregateOps \cup {"write_error_strategy"}

\* What the operation o does to the group and what it calls and returns
\* when it is called on the group itself.
GroupCall(o) ==
    IF o \in WriteOps THEN Write(o)
    ELSE IF o \in ReadOps THEN Read(o)
    ELSE IF o \in FlagOps THEN Flag(o)
    ELSE IF o \in AggregateOps THEN Aggregate(o)
    ELSE /\ status = "live"
         /\ op' = "write_error_strategy"
         /\ arg' \in {"Ignore", "Stop"}
         /\ write_error_strategy' = arg'
         /\ outcome' = <<>>
         /\ invoked' = <<>>
         /\ ret' = "&mut Self"
         /\ UNCHANGED <<status, motors>>

\* C26: SharedMotors passes every operation on as it is: a call through a
\* handle returns the value and makes the calls of motors that the call of
\* the operation of the same name on the group itself returns and makes.
C26_PassThrough ==
    [][op' \in SharedOps => GroupCall(op')]_vars

\* C27: the clones of a SharedMotors work on one group, and no call made
\* through them meets a RefCell that is borrowed.  Whatever handle a call
\* goes through, the setter sets the strategy of the group, no other call
\* changes it, and a write follows the strategy in force, so that a write
\* through one handle right after the setter was called through another
\* follows the mode that was set; every call but the setter does what the
\* call on the group itself does; and when a call has returned the RefCell
\* is unused and the program has not panicked.
C27_ClonesShareOneGroup ==
    /\ [](/\ status = "live"
          /\ borrow = 0
          /\ via \in 0..handles
          /\ handles \in 0..MaxHandles)
    /\ [][op' \in SharedOps =>
            /\ via' \in 1..handles
            /\ IF op' = "write_error_strategy"
               THEN /\ write_error_strategy' = arg'
                    /\ invoked' = <<>>
                    /\ motors' = motors
               ELSE /\ write_error_strategy' = write_error_strategy
                    /\ GroupCall(op')
            /\ op' \in WriteOps =>
                 IF write_error_strategy = "Stop" THEN StopProtocol'
                 ELSE IgnoreProtocol'
            /\ (op = "write_error_strategy" /\ via' /= via /\ op' \in WriteOps) =>
                 IF arg = "Stop" THEN StopProtocol' ELSE IgnoreProtocol']_vars

\* A write through the second of two handles, the strategy being Stop, with
\* two motors that both fail: it stopped at the first.
C27_Witness ==
    /\ op = "brake"
    /\ handles = 2
    /\ via = 2
    /\ write_error_strategy = "Stop"
    /\ Failing = {1, 2}
    /\ invoked = <<Call(1, "brake")>>
    /\ borrow = 0
    /\ status = "live"

====
